---- MODULE Spec2Model ----
(*****************************************************************************)
(* Model of wavegraph's graph assembly (wavegraph/graph.py, class Graph)     *)
(* and of the Cluster / GridPoint types it consumes (wavegraph/              *)
(* tfcluster.py).                                                            *)
(*                                                                           *)
(* A GridPoint is the tuple <<scale_index, time_index, freq_index>> (it is   *)
(* a namedtuple in the source, compared and hashed by value).  A Cluster     *)
(* is the record [grid_points, values, metadata].  Graph.__init__ is         *)
(* followed through its control points: one step per iteration of the loop   *)
(* over the clusters, one for the statistics, and the steps of the           *)
(* recursive depth-first topological sort (the Python call stack is the      *)
(* variable stack).  pc = "done" is a call having returned, pc = "raised"    *)
(* a call having left by an exception.                                       *)
(*                                                                           *)
(* Values are integers and the statistics are exact rationals <<p, q>> in    *)
(* lowest terms; value_stdev is represented by its square, the population    *)
(* variance (the square root is injective on non-negative numbers).  The     *)
(* rounding of IEEE doubles inside numpy.mean and numpy.std is not           *)
(* modelled.                                                                 *)
(*                                                                           *)
(* The grid's timescales are IEEE-754 doubles, modelled exactly: a double    *)
(* is the record [s, m, e] of its sign, its 53-bit significand (an           *)
(* unbounded natural, little-endian in limbs of LimbBits bits) and its       *)
(* exponent, and a product or a quotient is rounded to nearest, ties to      *)
(* even, as the hardware rounds it.  shift_clusters_to_zero_index, span      *)
(* and phys_coords compute with these doubles as the source does.            *)
(*                                                                           *)
(* Specifications: Spec (the structure of the graph: clusters over           *)
(* GridPoints, every value 1), SpecStats (the statistics: clusters over      *)
(* StatPoints with values of Values), SpecUnchecked (clusters whose          *)
(* grid_points and values differ in length, which Cluster.__new__ lets       *)
(* through), SpecAlign (shift_clusters_to_zero_index, then the               *)
(* constructor on its result), SpecSpan (the constructor, then span),        *)
(* SpecStr (the constructor, then __str__ line by line), SpecCalls (the      *)
(* constructor, then any sequence of span and __str__ calls), SpecMerge      *)
(* (Spec with one more grid point in the batch, over three points) and       *)
(* SpecSort (the constructor under weak fairness, for the termination of     *)
(* the sort).                                                                *)
(*****************************************************************************)
EXTENDS Integers, Sequences, FiniteSets, TLC

\* Bounds of the explored inputs.
MaxPoints == 4      \* grid points in a batch, summed over its clusters
MaxClusters == 2    \* clusters in a batch

\* The grid points the clusters are drawn from: <<scale_index, time_index,
\* freq_index>>.
GridPoints == {<<0, 0, 1>>, <<0, 1, 1>>, <<1, 0, 1>>, <<1, 1, 1>>}

\* The specifications about the statistics draw the clusters from two grid
\* points and two values; the others give every point the value 1.
StatPoints == {<<0, 0, 1>>, <<0, 1, 1>>}
Values == {1, 2}
UnitValues == {1}

\* The local variable `node` of Graph.__init__ before its first assignment.
Unbound == <<>>

\* No grid at hand, and no call on the Graph made yet.
NoGrid == <<>>
NoResult == <<>>

VARIABLES
    clusters,         \* the argument of Graph.__init__: a tuple of Clusters
    pc,               \* control point: "align", "loop", "sort", "done", "str",
                      \* "raised"
    k,                \* position of the for loop over clusters (1-based)
    graph,            \* self.graph: GridPoint -> set of ancestors
    values,           \* local values: GridPoint -> list of contributed values
    head_nodes,       \* self.head_nodes
    node,             \* the loop variable `node`, which outlives its loop
    exc,              \* the exception that ended the constructor, or "none"
    point_info,       \* self.point_info: GridPoint -> GraphInfo
    nodes_unvisited,  \* _topological_sorting: nodes_unvisited
    stack,            \* the active calls of sorted_ancestors, innermost last
    sorted_nodes,     \* _topological_sorting: sorted_nodes
    sorted_list,      \* self.sorted_list
    raw,              \* the batch as it was read, before any alignment
    grid,             \* the CoherentWaveBurstGrid of the calls, or NoGrid
    returned,         \* what the latest call on the Graph returned
    node_ID,          \* __str__: the loop variable node_ID
    node_IDs,         \* __str__: node_IDs, GridPoint -> ID
    output_list       \* __str__: output_list, the lines so far

\* The variables of the calls made around the constructor.
callVars == <<raw, grid, returned, node_ID, node_IDs, output_list>>

vars == <<clusters, pc, k, graph, values, head_nodes, node, exc, point_info,
          nodes_unvisited, stack, sorted_nodes, sorted_list, callVars>>

----------------------------------------------------------------------------
\* Helpers: dictionaries as functions, exact rationals.

EmptyDict == [x \in {} |-> {}]

\* d[key] = value
Put(d, key, value) ==
    [x \in DOMAIN d \cup {key} |-> IF x = key THEN value ELSE d[x]]

\* collections.defaultdict.__getitem__: the stored value, else the default
Get(d, key, default) == IF key \in DOMAIN d THEN d[key] ELSE default

Abs(x) == IF x < 0 THEN -x ELSE x

RECURSIVE GCD(_, _)
GCD(a, b) == IF b = 0 THEN a ELSE GCD(b, a % b)

\* The rational a / b (b > 0) in lowest terms.
Frac(a, b) ==
    LET g == GCD(Abs(a), b) IN <<a \div g, b \div g>>

RECURSIVE SeqSum(_)
SeqSum(s) == IF s = <<>> THEN 0 ELSE Head(s) + SeqSum(Tail(s))

RECURSIVE SeqSumSq(_)
SeqSumSq(s) == IF s = <<>> THEN 0 ELSE Head(s) * Head(s) + SeqSumSq(Tail(s))

\* numpy.mean of a non-empty list
NumpyMean(s) == Frac(SeqSum(s), Len(s))

\* numpy.std of a non-empty list (ddof = 0), as its square
NumpyStd(s) ==
    Frac(Len(s) * SeqSumSq(s) - SeqSum(s) * SeqSum(s), Len(s) * Len(s))

----------------------------------------------------------------------------
\* Natural numbers of any size, for the 53-bit significands of the doubles:
\* the limbs in base LimbBase, least significant first, without leading zero
\* limbs (0 is <<>>).
LimbBits == 15
LimbBase == 32768

RECURSIVE BigNorm(_)
BigNorm(a) ==
    IF a # <<>> /\ a[Len(a)] = 0 THEN BigNorm(SubSeq(a, 1, Len(a) - 1)) ELSE a

RECURSIVE BigFromInt(_)
BigFromInt(n) ==
    IF n = 0 THEN <<>> ELSE <<n % LimbBase>> \o BigFromInt(n \div LimbBase)

RECURSIVE BigToInt(_)
BigToInt(a) ==
    IF a = <<>> THEN 0 ELSE Head(a) + LimbBase * BigToInt(Tail(a))

Limb(a, i) == IF i <= Len(a) THEN a[i] ELSE 0

RECURSIVE BigCmpFrom(_, _, _)
\* -1, 0, 1 as a < b, a = b, a > b, comparing the limbs i, i-1, ..., 1
BigCmpFrom(a, b, i) ==
    IF i = 0 THEN 0
    ELSE IF Limb(a, i) < Limb(b, i) THEN -1
    ELSE IF Limb(a, i) > Limb(b, i) THEN 1
    ELSE BigCmpFrom(a, b, i - 1)

BigCmp(a, b) ==
    BigCmpFrom(a, b, IF Len(a) > Len(b) THEN Len(a) ELSE Len(b))

RECURSIVE BigAddFrom(_, _, _, _)
BigAddFrom(a, b, i, carry) ==
    IF i > Len(a) /\ i > Len(b)
    THEN IF carry = 0 THEN <<>> ELSE <<carry>>
    ELSE LET t == Limb(a, i) + Limb(b, i) + carry
         IN  <<t % LimbBase>> \o BigAddFrom(a, b, i + 1, t \div LimbBase)

BigAdd(a, b) == BigAddFrom(a, b, 1, 0)

RECURSIVE BigSubFrom(_, _, _, _)
BigSubFrom(a, b, i, borrow) ==
    IF i > Len(a) THEN <<>>
    ELSE LET t == Limb(a, i) - Limb(b, i) - borrow
         IN  IF t < 0
             THEN <<t + LimbBase>> \o BigSubFrom(a, b, i + 1, 1)
             ELSE <<t>> \o BigSubFrom(a, b, i + 1, 0)

\* a - b, for a >= b
BigSub(a, b) == BigNorm(BigSubFrom(a, b, 1, 0))

RECURSIVE BigMulIntFrom(_, _, _, _)
BigMulIntFrom(a, n, i, carry) ==
    IF i > Len(a) THEN BigFromInt(carry)
    ELSE LET t == a[i] * n + carry
         IN  <<t % LimbBase>> \o BigMulIntFrom(a, n, i + 1, t \div LimbBase)

\* a * n, for 0 <= n < LimbBase
BigMulInt(a, n) == BigNorm(BigMulIntFrom(a, n, 1, 0))

RECURSIVE Pow2(_)
Pow2(n) == IF n = 0 THEN 1 ELSE 2 * Pow2(n - 1)

RECURSIVE BigShl(_, _)
\* a * 2^n
BigShl(a, n) ==
    IF a = <<>> THEN <<>>
    ELSE IF n >= LimbBits THEN <<0>> \o BigShl(a, n - LimbBits)
    ELSE BigMulInt(a, Pow2(n))

RECURSIVE BigShrBitsFrom(_, _, _)
\* floor(a / 2^n) for n < LimbBits, from limb i on
BigShrBitsFrom(a, n, i) ==
    IF i > Len(a) THEN <<>>
    ELSE <<(a[i] \div Pow2(n)) + (Limb(a, i + 1) % Pow2(n)) * Pow2(LimbBits - n)>>
         \o BigShrBitsFrom(a, n, i + 1)

RECURSIVE BigShr(_, _)
\* floor(a / 2^n)
BigShr(a, n) ==
    IF a = <<>> THEN <<>>
    ELSE IF n >= LimbBits THEN BigShr(Tail(a), n - LimbBits)
    ELSE BigNorm(BigShrBitsFrom(a, n, 1))

RECURSIVE IntBitLen(_)
IntBitLen(n) == IF n = 0 THEN 0 ELSE 1 + IntBitLen(n \div 2)

\* The number of bits of a
BigBitLen(a) ==
    IF a = <<>> THEN 0 ELSE LimbBits * (Len(a) - 1) + IntBitLen(a[Len(a)])

\* Bit i of a (bit 0 is the least significant)
BigBit(a, i) == (Limb(a, (i \div LimbBits) + 1) \div Pow2(i % LimbBits)) % 2

RECURSIVE BigDivDigit(_, _, _, _)
\* The largest q in lo..hi with d * q <= r (d * lo <= r is given)
BigDivDigit(r, d, lo, hi) ==
    IF lo = hi THEN lo
    ELSE LET mid == (lo + hi + 1) \div 2
         IN  IF BigCmp(BigMulInt(d, mid), r) <= 0
             THEN BigDivDigit(r, d, mid, hi)
             ELSE BigDivDigit(r, d, lo, mid - 1)

\* The quotient of r by d, for r < d * LimbBase: the leading LimbBits bits
\* of d, and r cut alike, bound it from both sides.
BigDivLimb(r, d) ==
    LET cut == IF BigBitLen(d) > LimbBits THEN BigBitLen(d) - LimbBits ELSE 0
        top == BigToInt(BigShr(d, cut))
        num == BigToInt(BigShr(r, cut))
        lo  == num \div (top + 1)
        hi  == (num + 1) \div top
    IN  BigDivDigit(r, d, lo, IF hi < LimbBase THEN hi ELSE LimbBase - 1)

RECURSIVE BigDivFrom(_, _, _, _)
\* Long division of n by d, limb i of n downwards, r the remainder so far:
\* <<quotient, remainder>>
BigDivFrom(n, d, i, r) ==
    IF i = 0 THEN <<<<>>, r>>
    ELSE LET r2   == BigNorm(<<n[i]>> \o r)
             q    == BigDivLimb(r2, d)
             rest == BigDivFrom(n, d, i - 1, BigSub(r2, BigMulInt(d, q)))
         IN  <<rest[1] \o <<q>>, rest[2]>>

\* <<quotient, remainder>> of n by d, d not zero
BigDivMod(n, d) ==
    LET qr == BigDivFrom(n, d, Len(n), <<>>) IN <<BigNorm(qr[1]), qr[2]>>

----------------------------------------------------------------------------
\* IEEE 754 binary64 (numpy.float64, Python float): the number s * m * 2^e
\* with s the sign, m a natural number of exactly MantissaBits bits; zero is
\* [s |-> 0].  Round to nearest, ties to even.  Overflow, subnormal numbers,
\* infinities and NaN are beyond the numbers met here.
MantissaBits == 53

FloatZero == [s |-> 0, m |-> <<>>, e |-> 0]

\* The binary64 nearest to s * n * 2^e (n > 0), the exact number being
\* larger by less than 2^e when sticky.
FloatRound(s, n, e, sticky) ==
    LET bits == BigBitLen(n) IN
    IF bits <= MantissaBits
    THEN [s |-> s, m |-> BigShl(n, MantissaBits - bits),
          e |-> e - (MantissaBits - bits)]
    ELSE LET d    == bits - MantissaBits
             q    == BigShr(n, d)
             r    == BigSub(n, BigShl(q, d))
             half == BigShl(<<1>>, d - 1)
             c    == BigCmp(r, half)
             up   == \/ c > 0
                     \/ c = 0 /\ (sticky \/ BigBit(q, 0) = 1)
             q2   == IF up THEN BigAdd(q, <<1>>) ELSE q
         IN  IF BigBitLen(q2) > MantissaBits
             THEN [s |-> s, m |-> BigShr(q2, 1), e |-> e + d + 1]
             ELSE [s |-> s, m |-> q2, e |-> e + d]

\* float(n) of an integer n below LimbBase * LimbBase in size
FloatFromInt(n) ==
    IF n = 0 THEN FloatZero
    ELSE FloatRound(IF n < 0 THEN -1 ELSE 1,
                    BigFromInt(IF n < 0 THEN -n ELSE n), 0, FALSE)

\* a * b
FloatMulInt(n, b) ==
    IF n = 0 \/ b.s = 0 THEN FloatZero
    ELSE FloatRound((IF n < 0 THEN -1 ELSE 1) * b.s,
                    BigMulInt(b.m, IF n < 0 THEN -n ELSE n), b.e, FALSE)

\* a / b, b not zero
FloatDiv(a, b) ==
    LET s == a.s * b.s IN
    IF s = 0 THEN FloatZero
    ELSE LET qr == BigDivMod(BigShl(a.m, MantissaBits + 2), b.m)
         IN  FloatRound(s, qr[1], a.e - (MantissaBits + 2) - b.e,
                        qr[2] # <<>>)

\* a < b
FloatLess(a, b) ==
    LET \* the order of the sizes |a| < |b| for a, b not zero
        SizeLess(x, y) ==
            \/ x.e < y.e
            \/ x.e = y.e /\ BigCmp(x.m, y.m) < 0
    IN  IF a.s # b.s THEN a.s < b.s
        ELSE IF a.s = 0 THEN FALSE
        ELSE IF a.s = 1 THEN SizeLess(a, b)
        ELSE SizeLess(b, a)

\* int(numpy.floor(a)), for a below 2^30 in size
FloatFloor(a) ==
    IF a.s = 0 THEN 0
    ELSE IF a.e >= 0 THEN a.s * BigToInt(BigShl(a.m, a.e))
    ELSE LET q == BigShr(a.m, -a.e)
             exact == BigShl(q, -a.e) = a.m
         IN  IF a.s = 1 THEN BigToInt(q)
             ELSE IF exact THEN -BigToInt(q) ELSE -BigToInt(q) - 1

----------------------------------------------------------------------------
\* CoherentWaveBurstGrid(sampling_freq, min_scale_exp, max_scale_exp), for
\* 0 <= min_scale_exp <= max_scale_exp: timescales_exp is
\* numpy.arange(min_scale_exp, max_scale_exp + 1) and timescales is
\* 2**timescales_exp / float(sampling_freq), an array of doubles.  Arrays
\* are sequences: the element of index i is number i + 1.
CoherentWaveBurstGrid(sampling_freq, min_scale_exp, max_scale_exp) ==
    [sampling_freq  |-> FloatFromInt(sampling_freq),
     timescales_exp |-> [i \in 1..(max_scale_exp - min_scale_exp + 1) |->
                            min_scale_exp + i - 1],
     timescales     |-> [i \in 1..(max_scale_exp - min_scale_exp + 1) |->
                            FloatDiv(FloatFromInt(Pow2(min_scale_exp + i - 1)),
                                     FloatFromInt(sampling_freq))]]

\* array[index] of a numpy array raises IndexError beyond its length (the
\* indices met here are not negative).
InRange(array, index) == index + 1 <= Len(array)

\* The grids of the explored inputs: one plane of timescale 1 s; two planes
\* at the sampling frequency 1 Hz; two planes at 3 Hz, whose timescales 1/3 s
\* and 2/3 s are no doubles.
Grids ==
    {CoherentWaveBurstGrid(1, 0, 0), CoherentWaveBurstGrid(1, 0, 1),
     CoherentWaveBurstGrid(3, 0, 1)}

----------------------------------------------------------------------------
\* Cluster(grid_points, values, metadata): grid_points and values are stored
\* as tuples, whatever their lengths, metadata as an attribute.
Cluster(grid_points, vals, metadata) ==
    [grid_points |-> grid_points, values |-> vals, metadata |-> metadata]

----------------------------------------------------------------------------
\* shift_clusters_to_zero_index(clusters, grid)

RECURSIVE Nodes(_, _)
\* `node ... for cluster in clusters for node in cluster.grid_points`, in the
\* order of the generator, from cluster number i on
Nodes(batch, i) ==
    IF i > Len(batch) THEN <<>>
    ELSE batch[i].grid_points \o Nodes(batch, i + 1)

\* max(...) of a non-empty sequence of integers
Max(s) == CHOOSE x \in {s[i] : i \in DOMAIN s} :
              \A i \in DOMAIN s : s[i] <= x

RECURSIVE FloatMinFrom(_, _, _)
\* min(...) of doubles: the first of the smallest, from element i on, m being
\* the one found so far
FloatMinFrom(s, i, m) ==
    IF i > Len(s) THEN m
    ELSE FloatMinFrom(s, i + 1, IF FloatLess(s[i], m) THEN s[i] ELSE m)

FloatMin(s) == FloatMinFrom(s, 2, s[1])

RECURSIVE FloatMaxFrom(_, _, _)
FloatMaxFrom(s, i, m) ==
    IF i > Len(s) THEN m
    ELSE FloatMaxFrom(s, i + 1, IF FloatLess(m, s[i]) THEN s[i] ELSE m)

FloatMax(s) == FloatMaxFrom(s, 2, s[1])

\* node.time_index * grid.timescales[node.scale_index], for a scale_index in
\* range
Time(nd, g) == FloatMulInt(nd[2], g.timescales[nd[1] + 1])

\* int(numpy.floor(time_min/grid.timescales[scale_index_max]))
IndexShift(time_min, timescale) ==
    FloatFloor(FloatDiv(time_min, timescale))

\* A bug: every grid point is moved to the time index 0 of its plane.
Shifted_ToZero(grid_point, index_shift_at_scale_max, scale_index_max) ==
    <<grid_point[1], 0, grid_point[3]>>

\* grid_point._replace(time_index=(grid_point.time_index
\*     - index_shift_at_scale_max*2**(scale_index_max - grid_point.scale_index)))
Shifted(grid_point, index_shift_at_scale_max, scale_index_max) ==
    <<grid_point[1],
      grid_point[2]
        - index_shift_at_scale_max * Pow2(scale_index_max - grid_point[1]),
      grid_point[3]>>

\* The call: [exc, value], value being the returned list when exc = "none".
\* max() and min() of an empty generator raise ValueError, and
\* grid.timescales[...] beyond the array raises IndexError.
shift_clusters_to_zero_index(batch, g) ==
    LET nodes == Nodes(batch, 1)
        scale_index_max == Max([i \in DOMAIN nodes |-> nodes[i][1]])
        time_min == FloatMin([i \in DOMAIN nodes |-> Time(nodes[i], g)])
        index_shift_at_scale_max ==
            IndexShift(time_min, g.timescales[scale_index_max + 1])
    IN  IF nodes = <<>> THEN [exc |-> "ValueError", value |-> <<>>]
        ELSE IF \E i \in DOMAIN nodes : ~InRange(g.timescales, nodes[i][1])
        THEN [exc |-> "IndexError", value |-> <<>>]
        ELSE [exc |-> "none",
              value |-> [c \in DOMAIN batch |->
                  Cluster([j \in DOMAIN batch[c].grid_points |->
                              Shifted(batch[c].grid_points[j],
                                      index_shift_at_scale_max,
                                      scale_index_max)],
                          batch[c].values, batch[c].metadata)]]

----------------------------------------------------------------------------
\* Graph.__init__, one iteration of the loop over clusters.

\* A bug: the first point of a cluster gets no entry of its own.
FirstNode_Skip(g, cluster_points) == g

\* self.graph[cluster_points[0]] = set()
FirstNode(g, cluster_points) == Put(g, cluster_points[1], {})

\* for (ancestor, node) in izip(cluster_points[:-1], cluster_points[1:]):
\*     self.graph[node].add(ancestor)
\* from pair number i on.
RECURSIVE AddAncestors(_, _, _)
AddAncestors(g, cluster_points, i) ==
    IF i >= Len(cluster_points) THEN g
    ELSE AddAncestors(
            Put(g, cluster_points[i + 1],
                Get(g, cluster_points[i + 1], {}) \cup {cluster_points[i]}),
            cluster_points, i + 1)

\* The value of `node` after that loop: the last pair's node, or what it was.
LoopNode(nd, cluster_points) ==
    IF Len(cluster_points) >= 2 THEN cluster_points[Len(cluster_points)]
    ELSE nd

\* A bug: values[grid_point] = [value], the last value replaces the list.
AppendValue_Overwrite(vs, grid_point, value) ==
    Put(vs, grid_point, <<value>>)

\* A bug: values.setdefault(grid_point, [value]), only the first value is kept.
AppendValue_KeepFirst(vs, grid_point, value) ==
    IF grid_point \in DOMAIN vs THEN vs ELSE Put(vs, grid_point, <<value>>)

\* values[grid_point].append(value)
AppendValue(vs, grid_point, value) ==
    Put(vs, grid_point, Append(Get(vs, grid_point, <<>>), value))

\* for (grid_point, value) in izip(cluster_points, cluster.values):
\*     values[grid_point].append(value)
\* from pair number i on; izip stops with the shorter of its arguments.
RECURSIVE RegisterValues(_, _, _, _)
RegisterValues(vs, cluster_points, cluster_values, i) ==
    IF i > Len(cluster_points) \/ i > Len(cluster_values) THEN vs
    ELSE RegisterValues(AppendValue(vs, cluster_points[i], cluster_values[i]),
                        cluster_points, cluster_values, i + 1)

\* The body of `for cluster in clusters:` for a cluster with grid points, on
\* the state st of the constructor.  head_nodes.add(node) reads the variable
\* `node`, which only the loop over the pairs assigns.
ClusterBody(st, cluster) ==
    LET cluster_points == cluster.grid_points
        g  == AddAncestors(FirstNode(st.graph, cluster_points),
                           cluster_points, 1)
        nd == LoopNode(st.node, cluster_points)
        vs == RegisterValues(st.values, cluster_points, cluster.values, 1)
    IN  IF nd = Unbound
        THEN [st EXCEPT !.graph = g, !.values = vs,
                        !.exc = "UnboundLocalError"]
        ELSE [graph |-> g, values |-> vs,
              head_nodes |-> st.head_nodes \cup {nd},
              node |-> nd, exc |-> "none"]

\* A bug: no test for the empty cluster, cluster_points[0] raises.
ClusterStep_NoSkip(st, cluster) ==
    IF cluster.grid_points = <<>> THEN [st EXCEPT !.exc = "IndexError"]
    ELSE ClusterBody(st, cluster)

\* The body of `for cluster in clusters:`: `if not cluster_points: continue`.
ClusterStep(st, cluster) ==
    IF cluster.grid_points = <<>> THEN st
    ELSE ClusterBody(st, cluster)

\* The constructor's state before the loop.
InitState ==
    [graph |-> EmptyDict, values |-> EmptyDict, head_nodes |-> {},
     node |-> Unbound, exc |-> "none"]

\* The whole loop over a batch, from cluster number i on.
RECURSIVE BuildLoop(_, _, _)
BuildLoop(st, batch, i) ==
    IF i > Len(batch) \/ st.exc # "none" THEN st
    ELSE BuildLoop(ClusterStep(st, batch[i]), batch, i + 1)

\* A bug: a grid point with a single value gets no statistics.
PointInfo_Repeated(vs) ==
    [p \in {q \in DOMAIN vs : Len(vs[q]) > 1} |->
        [value_avg |-> NumpyMean(vs[p]), value_stdev |-> NumpyStd(vs[p])]]

\* self.point_info[grid_point] = GraphInfo(numpy.mean(values), numpy.std(values))
PointInfo(vs) ==
    [p \in DOMAIN vs |->
        [value_avg |-> NumpyMean(vs[p]), value_stdev |-> NumpyStd(vs[p])]]

----------------------------------------------------------------------------
\* The batches of the explored inputs: a tuple of at most MaxClusters
\* clusters that hold at most MaxPoints grid points together.

RECURSIVE Split(_, _, _, _)
\* pts and vals cut into consecutive clusters of the lengths lens[i], lens[i+1], ...
\* The metadata of a cluster is its number in the batch.
Split(pts, vals, lens, i) ==
    IF i > Len(lens) THEN <<>>
    ELSE <<Cluster(SubSeq(pts, 1, lens[i]), SubSeq(vals, 1, lens[i]), i)>>
         \o Split(SubSeq(pts, lens[i] + 1, Len(pts)),
                  SubSeq(vals, lens[i] + 1, Len(vals)), lens, i + 1)

\* clusters is such a batch over the given grid points and values.
IsBatch(points, vals, maxPoints, maxClusters) ==
    \E t \in 0..maxPoints, n \in 0..maxClusters :
      \E ps \in [1..t -> points], vs \in [1..t -> vals],
         lens \in [1..n -> 0..t] :
          /\ SeqSum(lens) = t
          /\ clusters = Split(ps, vs, lens, 1)

\* Nothing is built yet and no call is made; the batch is as it was read.
Fresh ==
    /\ k = 1
    /\ graph = EmptyDict
    /\ values = EmptyDict
    /\ head_nodes = {}
    /\ node = Unbound
    /\ exc = "none"
    /\ point_info = EmptyDict
    /\ nodes_unvisited = {}
    /\ stack = <<>>
    /\ sorted_nodes = <<>>
    /\ sorted_list = <<>>
    /\ raw = clusters
    /\ returned = NoResult
    /\ node_ID = 0
    /\ node_IDs = EmptyDict
    /\ output_list = <<>>

\* Graph.__init__ is entered with the batch; no grid is involved.
Start ==
    /\ pc = "loop"
    /\ grid = NoGrid
    /\ Fresh

Init ==
    /\ IsBatch(GridPoints, UnitValues, MaxPoints, MaxClusters)
    /\ Start

----------------------------------------------------------------------------
\* Actions.

\* One iteration of `for cluster in clusters:`; an exception leaves the
\* constructor.
ProcessCluster ==
    /\ pc = "loop"
    /\ k <= Len(clusters)
    /\ LET st == ClusterStep(
                    [graph |-> graph, values |-> values,
                     head_nodes |-> head_nodes, node |-> node, exc |-> exc],
                    clusters[k])
       IN  /\ graph' = st.graph
           /\ values' = st.values
           /\ head_nodes' = st.head_nodes
           /\ node' = st.node
           /\ exc' = st.exc
           /\ pc' = IF st.exc = "none" THEN "loop" ELSE "raised"
    /\ k' = k + 1
    /\ UNCHANGED <<clusters, point_info, nodes_unvisited, stack, sorted_nodes,
                   sorted_list, callVars>>

\* After the loop: the statistics of every grid point with values, and the
\* entry of _topological_sorting (nodes_unvisited = set(self.graph)).
Statistics ==
    /\ pc = "loop"
    /\ k > Len(clusters)
    /\ point_info' = PointInfo(values)
    /\ nodes_unvisited' = DOMAIN graph
    /\ pc' = "sort"
    /\ UNCHANGED <<clusters, k, graph, values, head_nodes, node, exc, stack,
                   sorted_nodes, sorted_list, callVars>>

\* A call sorted_ancestors(n): the ancestors of n the for loop has not yet
\* reached, and result.
Frame(n) == [node |-> n, todo |-> Get(graph, n, {}), result |-> <<>>]

\* while nodes_unvisited: sorted_ancestors(nodes_unvisited.pop())
SortPop ==
    /\ pc = "sort"
    /\ stack = <<>>
    /\ \E n \in nodes_unvisited :
          /\ nodes_unvisited' = nodes_unvisited \ {n}
          /\ stack' = <<Frame(n)>>
    /\ UNCHANGED <<clusters, pc, k, graph, values, head_nodes, node, exc,
                   point_info, sorted_nodes, sorted_list, callVars>>

\* A bug: the ancestor is looked up and left in the set.
Remove_Nothing(unvisited, ancestor) == unvisited

\* nodes_unvisited.remove(ancestor), the ancestor being in the set
Remove(unvisited, ancestor) == unvisited \ {ancestor}

\* for ancestor in self.graph[node]: try nodes_unvisited.remove(ancestor);
\* except KeyError: pass; else: recurse.
SortAncestor ==
    /\ pc = "sort"
    /\ stack # <<>>
    /\ LET top == stack[Len(stack)] IN
       \E ancestor \in top.todo :
          LET rest == [stack EXCEPT ![Len(stack)].todo = top.todo \ {ancestor}]
          IN  IF ancestor \in nodes_unvisited
              THEN /\ nodes_unvisited' = Remove(nodes_unvisited, ancestor)
                   /\ stack' = Append(rest, Frame(ancestor))
              ELSE /\ nodes_unvisited' = nodes_unvisited
                   /\ stack' = rest
    /\ UNCHANGED <<clusters, pc, k, graph, values, head_nodes, node, exc,
                   point_info, sorted_nodes, sorted_list, callVars>>

\* result.append(node); return result: the caller extends its own result,
\* the outermost caller extends sorted_nodes.
SortReturn ==
    /\ pc = "sort"
    /\ stack # <<>>
    /\ LET top == stack[Len(stack)]
           result == Append(top.result, top.node)
           callers == SubSeq(stack, 1, Len(stack) - 1)
       IN  /\ top.todo = {}
           /\ IF callers = <<>>
              THEN /\ stack' = <<>>
                   /\ sorted_nodes' = sorted_nodes \o result
              ELSE /\ stack' = [callers EXCEPT ![Len(callers)].result =
                                    callers[Len(callers)].result \o result]
                   /\ sorted_nodes' = sorted_nodes
    /\ UNCHANGED <<clusters, pc, k, graph, values, head_nodes, node, exc,
                   point_info, nodes_unvisited, sorted_list, callVars>>

\* return sorted_nodes; self.sorted_list = ...: the constructor returns.
SortDone ==
    /\ pc = "sort"
    /\ stack = <<>>
    /\ nodes_unvisited = {}
    /\ sorted_list' = sorted_nodes
    /\ pc' = "done"
    /\ UNCHANGED <<clusters, k, graph, values, head_nodes, node, exc,
                   point_info, nodes_unvisited, stack, sorted_nodes, callVars>>

Next ==
    \/ ProcessCluster
    \/ Statistics
    \/ SortPop
    \/ SortAncestor
    \/ SortReturn
    \/ SortDone

Spec == Init /\ [][Next]_vars

\* The specification of the statistics.
InitStats ==
    /\ IsBatch(StatPoints, Values, MaxPoints, MaxClusters)
    /\ Start

SpecStats == InitStats /\ [][Next]_vars

----------------------------------------------------------------------------
\* A second specification: Cluster.__new__ stores grid_points and values
\* without comparing their lengths, so a cluster whose sequences differ in
\* length can be built and handed to Graph.

IsUncheckedBatch(points, vals, maxPoints, maxClusters) ==
    \E t \in 0..maxPoints, u \in 0..maxPoints, n \in 0..maxClusters :
      \E ps \in [1..t -> points], vs \in [1..u -> vals],
         lens \in [1..n -> 0..t], vlens \in [1..n -> 0..u] :
          /\ SeqSum(lens) = t
          /\ SeqSum(vlens) = u
          /\ clusters = [i \in 1..n |->
                Cluster(Split(ps, ps, lens, 1)[i].grid_points,
                        Split(vs, vs, vlens, 1)[i].values, i)]

InitUnchecked ==
    /\ IsUncheckedBatch(StatPoints, Values, MaxPoints, MaxClusters)
    /\ Start

SpecUnchecked == InitUnchecked /\ [][Next]_vars

----------------------------------------------------------------------------
\* The alignment before the construction:
\*     clusters = shift_clusters_to_zero_index(clusters, grid)
\*     graph = Graph(clusters)

\* The grid points of the batches to align: <<scale_index, time_index,
\* freq_index>>, one time index negative, one far from zero.
AlignPoints == {<<0, -1, 1>>, <<0, 1, 1>>, <<0, 7, 1>>, <<1, 2, 1>>}

ShiftClusters ==
    /\ pc = "align"
    /\ LET r == shift_clusters_to_zero_index(clusters, grid)
       IN  /\ exc' = r.exc
           /\ IF r.exc = "none"
              THEN /\ clusters' = r.value
                   /\ returned' = [call |-> "shift_clusters_to_zero_index",
                                   value |-> r.value]
                   /\ pc' = "loop"
              ELSE /\ pc' = "raised"
                   /\ UNCHANGED <<clusters, returned>>
    /\ UNCHANGED <<k, graph, values, head_nodes, node, point_info,
                   nodes_unvisited, stack, sorted_nodes, sorted_list, raw,
                   grid, node_ID, node_IDs, output_list>>

InitAlign ==
    /\ IsBatch(AlignPoints, UnitValues, MaxPoints - 1, MaxClusters)
    /\ pc = "align"
    /\ grid \in Grids
    /\ Fresh

NextAlign ==
    \/ ShiftClusters
    \/ Next

SpecAlign == InitAlign /\ [][NextAlign]_vars

----------------------------------------------------------------------------
\* Calls on the Graph the constructor has returned: graph.span(grid).

\* The grid points of the batches of these calls.
SpanPoints == {<<0, 5, 1>>, <<0, 7, 1>>, <<1, 2, 1>>, <<1, 4, 1>>}

\* A bug: max(..., default=0), a Graph without nodes has the span 1.
span_Default(sorted, g) ==
    IF sorted = <<>> THEN [exc |-> "none", value |-> 1]
    ELSE [exc |-> "IndexError", value |-> 0]

\* Graph.span(grid): [exc, value].  max() of an empty generator raises
\* ValueError, grid.timescales[...] beyond the array raises IndexError.
span(sorted, g) ==
    LET scale_index_max == Max([i \in DOMAIN sorted |-> sorted[i][1]])
        time_max == FloatMax([i \in DOMAIN sorted |-> Time(sorted[i], g)])
    IN  IF sorted = <<>> THEN [exc |-> "ValueError", value |-> 0]
        ELSE IF \E i \in DOMAIN sorted : ~InRange(g.timescales, sorted[i][1])
        THEN [exc |-> "IndexError", value |-> 0]
        ELSE [exc |-> "none",
              value |-> FloatFloor(
                  FloatDiv(time_max, g.timescales[scale_index_max + 1])) + 1]

Span ==
    /\ pc = "done"
    /\ LET r == span(sorted_list, grid)
       IN  /\ exc' = r.exc
           /\ IF r.exc = "none"
              THEN /\ returned' = [call |-> "span", value |-> r.value]
                   /\ pc' = "done"
              ELSE /\ pc' = "raised"
                   /\ UNCHANGED returned
    /\ UNCHANGED <<clusters, k, graph, values, head_nodes, node, point_info,
                   nodes_unvisited, stack, sorted_nodes, sorted_list, raw,
                   grid, node_ID, node_IDs, output_list>>

InitSpan ==
    /\ IsBatch(SpanPoints, UnitValues, MaxPoints - 2, MaxClusters)
    /\ pc = "loop"
    /\ grid \in Grids
    /\ Fresh

NextSpan ==
    \/ Next
    \/ Span

SpecSpan == InitSpan /\ [][NextSpan]_vars

----------------------------------------------------------------------------
\* Calls on the Graph the constructor has returned: graph.__str__(grid).  The
\* text is a string; the digits of str() of a float are not modelled, a
\* float is written in a form of its own that has no blank and no newline.

RECURSIVE Join(_, _)
\* sep.join(strs)
Join(sep, strs) ==
    IF strs = <<>> THEN ""
    ELSE IF Len(strs) = 1 THEN strs[1]
    ELSE strs[1] \o sep \o Join(sep, Tail(strs))

\* str() of a statistic (the exact rational p/q)
StrFrac(x) == ToString(x[1]) \o "/" \o ToString(x[2])

\* str() of a double s * m * 2^e
StrFloat(x) ==
    ToString(x.s) \o "*" \o ToString(BigBitLen(x.m)) \o "b"
        \o Join(".", [i \in DOMAIN x.m |-> ToString(x.m[i])])
        \o "*2^" \o ToString(x.e)

Header ==
    "## nodeID time_idx freq_idx scale_idx value_avg value_stdev endnode ancestors"

\* The orders in which a for loop can meet the elements of a set.
Orders(S) ==
    {f \in [1..Cardinality(S) -> S] :
        \A i, j \in 1..Cardinality(S) : f[i] = f[j] => i = j}

\* A bug: the flag is set for the nodes that are not head nodes.
EndNode_Inverted(nd, heads) == IF nd \in heads THEN 0 ELSE 1

\* 1 if node in self.head_nodes else 0
EndNode(nd, heads) == IF nd \in heads THEN 1 ELSE 0

\* node_info, the ancestors met in the given order, as map(str, node_info)
NodeInfo(ID, nd, extra_info, heads, ids, ancestors) ==
    <<ToString(ID), ToString(nd[2]), ToString(nd[3]), ToString(nd[1]),
      StrFrac(extra_info.value_avg), StrFrac(extra_info.value_stdev),
      ToString(EndNode(nd, heads))>>
    \o [i \in DOMAIN ancestors |-> ToString(ids[ancestors[i]])]

\* GridPoint.phys_coords(grid), for a scale_index in range
phys_coords(nd, g) ==
    [scale     |-> g.timescales_exp[nd[1] + 1],
     time      |-> Time(nd, g),
     frequency |-> FloatDiv(FloatFromInt(nd[3]),
                            FloatMulInt(2, g.timescales[nd[1] + 1]))]

\* '## {ID}: a={scale}, t={time} s, f={frequency} Hz'.format(ID=..., **coords)
CommentLine(ID, coords) ==
    "## " \o ToString(ID) \o ": a=" \o ToString(coords.scale)
        \o ", t=" \o StrFloat(coords.time)
        \o " s, f=" \o StrFloat(coords.frequency) \o " Hz"

\* A bug: the IDs are handed out from 1 on while the lines count from 0.
AssignID_Next(ids, nd, ID) == Put(ids, nd, ID + 1)

\* node_IDs[node] = node_ID
AssignID(ids, nd, ID) == Put(ids, nd, ID)

\* output_list = [header]; node_IDs = {}
StrBegin ==
    /\ pc = "done"
    /\ output_list' = <<Header>>
    /\ node_IDs' = EmptyDict
    /\ node_ID' = 0
    /\ pc' = "str"
    /\ UNCHANGED <<clusters, k, graph, values, head_nodes, node, exc,
                   point_info, nodes_unvisited, stack, sorted_nodes,
                   sorted_list, raw, grid, returned>>

\* A bug: indexing the mapping resets the entry to the default.
GetOrInsert_Reset(d, key) == Put(d, key, {})

\* self.graph[key], self.graph being a collections.defaultdict(set): the
\* mapping after the indexing, a missing key having got the empty set.
GetOrInsert(d, key) == IF key \in DOMAIN d THEN d ELSE Put(d, key, {})

\* One iteration of `for (node_ID, node) in enumerate(self.sorted_list):`.
\* self.point_info[node] and node_IDs[ancestor] raise KeyError for a missing
\* key, phys_coords raises IndexError for a scale index beyond the grid.
\* self.graph[node] is indexed once self.point_info[node] has been found.
StrNode ==
    /\ pc = "str"
    /\ node_ID < Len(sorted_list)
    /\ graph' = IF sorted_list[node_ID + 1] \in DOMAIN point_info
                THEN GetOrInsert(graph, sorted_list[node_ID + 1])
                ELSE graph
    /\ LET nd == sorted_list[node_ID + 1]
           error ==
               IF nd \notin DOMAIN point_info THEN "KeyError"
               ELSE IF \E ancestor \in Get(graph, nd, {}) :
                          ancestor \notin DOMAIN node_IDs THEN "KeyError"
               ELSE IF ~InRange(grid.timescales, nd[1]) THEN "IndexError"
               ELSE "none"
       IN  IF error # "none"
           THEN /\ pc' = "raised"
                /\ exc' = error
                /\ UNCHANGED <<output_list, node_IDs, node_ID>>
           ELSE \E ancestors \in Orders(Get(graph, nd, {})) :
                /\ output_list' = output_list \o
                      <<Join(" ", NodeInfo(node_ID, nd, point_info[nd],
                                           head_nodes, node_IDs, ancestors)),
                        CommentLine(node_ID, phys_coords(nd, grid))>>
                /\ node_IDs' = AssignID(node_IDs, nd, node_ID)
                /\ node_ID' = node_ID + 1
                /\ UNCHANGED <<pc, exc>>
    /\ UNCHANGED <<clusters, k, values, head_nodes, node, point_info,
                   nodes_unvisited, stack, sorted_nodes, sorted_list, raw,
                   grid, returned>>

\* return '\n'.join(output_list)
StrReturn ==
    /\ pc = "str"
    /\ node_ID = Len(sorted_list)
    /\ returned' = [call |-> "__str__", value |-> Join("\n", output_list)]
    /\ pc' = "done"
    /\ UNCHANGED <<clusters, k, graph, values, head_nodes, node, exc,
                   point_info, nodes_unvisited, stack, sorted_nodes,
                   sorted_list, raw, grid, node_ID, node_IDs, output_list>>

\* The grid points of the batches whose Graphs are written.
StrPoints == {<<0, 0, 1>>, <<0, 1, 1>>, <<1, 0, 1>>}

InitStr ==
    /\ IsBatch(StrPoints, UnitValues, MaxPoints, MaxClusters)
    /\ pc = "loop"
    /\ grid = CoherentWaveBurstGrid(3, 0, 1)
    /\ Fresh

NextStr ==
    \/ Next
    \/ StrBegin
    \/ StrNode
    \/ StrReturn

SpecStr == InitStr /\ [][NextStr]_vars

\* Any sequence of calls of span and __str__ on the Graph the constructor
\* has returned, on a grid that may be too small for the Graph.  A call
\* that raises ends the sequence.
InitCalls ==
    /\ IsBatch(StrPoints, UnitValues, MaxPoints - 1, MaxClusters)
    /\ pc = "loop"
    /\ grid \in Grids
    /\ Fresh

NextCalls ==
    \/ Next
    \/ Span
    \/ StrBegin
    \/ StrNode
    \/ StrReturn

SpecCalls == InitCalls /\ [][NextCalls]_vars

----------------------------------------------------------------------------
\* Batches of one more grid point, over three grid points: clusters that
\* meet the same points in different orders.
MergePoints == {<<0, 0, 1>>, <<0, 1, 1>>, <<1, 0, 1>>}

InitMerge ==
    /\ IsBatch(MergePoints, UnitValues, MaxPoints + 1, MaxClusters)
    /\ Start

SpecMerge == InitMerge /\ [][Next]_vars

\* The specification of termination, over the same grid points.  The program
\* is sequential: it takes its next step whenever it has one.
InitSort ==
    /\ IsBatch(MergePoints, UnitValues, MaxPoints, MaxClusters)
    /\ Start

SpecSort == InitSort /\ [][Next]_vars /\ WF_vars(Next)

----------------------------------------------------------------------------
\* Vocabulary of the properties.

\* The constructor has returned a Graph.
Built == pc = "done"

\* The positions <<c, j>> of the batch: point j of cluster c.
Positions ==
    UNION {{<<c, j>> : j \in 1..Len(clusters[c].grid_points)} :
            c \in 1..Len(clusters)}

PointAt(cj) == clusters[cj[1]].grid_points[cj[2]]

\* The grid points that occur in the batch.
BatchPoints == {PointAt(cj) : cj \in Positions}

\* The predecessors of n over every adjacent pair of every cluster.
UnionAncestors(n) ==
    {PointAt(cj) : cj \in {x \in Positions :
        /\ <<x[1], x[2] + 1>> \in Positions
        /\ PointAt(<<x[1], x[2] + 1>>) = n}}

\* The nodes reachable from n through one or more edges of anc, where
\* anc[x] is the set of the ancestors of x.
RECURSIVE Closure(_, _)
Closure(anc, seen) ==
    LET more == seen \cup UNION {anc[x] : x \in seen \cap DOMAIN anc}
    IN  IF more = seen THEN seen ELSE Closure(anc, more)

ReachableFrom(anc, n) == Closure(anc, IF n \in DOMAIN anc THEN anc[n] ELSE {})

HasCycle(anc) == \E n \in DOMAIN anc : n \in ReachableFrom(anc, n)

UnionGraph == [n \in BatchPoints |-> UnionAncestors(n)]

\* The position of a node in sorted_list; 0 when it is not there.
Index(n) ==
    IF \E i \in 1..Len(sorted_list) : sorted_list[i] = n
    THEN CHOOSE i \in 1..Len(sorted_list) : sorted_list[i] = n
    ELSE 0

\* The last grid points of the clusters that have grid points.
LastPoints ==
    {clusters[c].grid_points[Len(clusters[c].grid_points)] :
        c \in {x \in 1..Len(clusters) : clusters[x].grid_points # <<>>}}

\* The positions at which grid point p occurs, and the values there.
Occurrences(p) == {cj \in Positions : PointAt(cj) = p}

ValueAt(cj) == clusters[cj[1]].values[cj[2]]

RECURSIVE SumOver(_, _)
\* The sum of ValueAt(x)^e over the positions x of S.
SumOver(S, e) ==
    IF S = {} THEN 0
    ELSE LET x == CHOOSE y \in S : TRUE
         IN  (IF e = 2 THEN ValueAt(x) * ValueAt(x) ELSE ValueAt(x))
             + SumOver(S \ {x}, e)

\* Mean and population variance of the values at the occurrences of p.
MeanAt(p) == Frac(SumOver(Occurrences(p), 1), Cardinality(Occurrences(p)))

VarianceAt(p) ==
    LET n == Cardinality(Occurrences(p))
        s == SumOver(Occurrences(p), 1)
    IN  Frac(n * SumOver(Occurrences(p), 2) - s * s, n * n)

\* The orders in which the batch can be handed over.
Permuted ==
    {[i \in 1..Len(clusters) |-> clusters[f[i]]] :
        f \in {g \in [1..Len(clusters) -> 1..Len(clusters)] :
                 \A i, j \in 1..Len(clusters) : g[i] = g[j] => i = j}}

\* The batch without its empty clusters.
NonEmptyClusters == SelectSeq(clusters, LAMBDA c : c.grid_points # <<>>)

\* The constructor's loop run over another batch.
LoopOver(batch) == BuildLoop(InitState, batch, 1)

\* shift_clusters_to_zero_index has returned the batch that is now clusters.
Aligned ==
    /\ returned # NoResult
    /\ returned.call = "shift_clusters_to_zero_index"

\* The grid point the batch had at position cj before the alignment.
RawAt(cj) == raw[cj[1]].grid_points[cj[2]]

\* The batch has a grid point and the grid has a plane for every one of them.
Alignable(batch) ==
    /\ Nodes(batch, 1) # <<>>
    /\ \A i \in DOMAIN Nodes(batch, 1) :
          InRange(grid.timescales, Nodes(batch, 1)[i][1])

\* The largest scale index of a batch with grid points.
ScaleIndexMax(batch) ==
    Max([i \in DOMAIN Nodes(batch, 1) |-> Nodes(batch, 1)[i][1]])

\* The physical time of a grid point as a multiple of grid.timescales[0]:
\* timescales[s] is 2^s times timescales[0].
ExactTime(nd) == nd[2] * Pow2(nd[1])

\* The smallest physical time of a batch with grid points, in that unit.
ExactTimeMin(batch) ==
    LET nodes == Nodes(batch, 1)
    IN  CHOOSE t \in {ExactTime(nodes[i]) : i \in DOMAIN nodes} :
            \A i \in DOMAIN nodes : t <= ExactTime(nodes[i])

\* floor(timeMin / timescales[scaleIndexMax]) as a number (\div rounds down)
ExactShift(batch) == ExactTimeMin(batch) \div Pow2(ScaleIndexMax(batch))

\* The largest physical time of the nodes of sorted_list, as a multiple of
\* grid.timescales[0], and their largest scale index (sorted_list not empty).
ExactTimeMax ==
    CHOOSE t \in {ExactTime(sorted_list[i]) : i \in DOMAIN sorted_list} :
        \A i \in DOMAIN sorted_list : ExactTime(sorted_list[i]) <= t

SortedScaleIndexMax == Max([i \in DOMAIN sorted_list |-> sorted_list[i][1]])

\* span has returned a number.
SpanReturned ==
    /\ returned # NoResult
    /\ returned.call = "span"

\* __str__ has returned a text.
StrReturned ==
    /\ pc = "done"
    /\ returned # NoResult
    /\ returned.call = "__str__"

\* Reading a text: str.split(sep).
RECURSIVE SplitStr(_, _)
SplitStr(str, sep) ==
    LET at == {j \in 1..Len(str) : SubSeq(str, j, j) = sep}
        first == CHOOSE j \in at : \A i \in at : j <= i
    IN  IF at = {} THEN <<str>>
        ELSE <<SubSeq(str, 1, first - 1)>>
             \o SplitStr(SubSeq(str, first + 1, Len(str)), sep)

IsComment(line) == Len(line) >= 2 /\ SubSeq(line, 1, 2) = "##"

\* The number a token writes, among the numbers a node ID can be; -1 if none.
ParseID(token) ==
    IF \E n \in 0..Len(sorted_list) : ToString(n) = token
    THEN CHOOSE n \in 0..Len(sorted_list) : ToString(n) = token
    ELSE -1

\* A data line as it is read: the node ID, the endnode field and the
\* ancestor IDs, which are the fields from the eighth on.
ReadLine(line) ==
    LET fields == SplitStr(line, " ")
    IN  [ID        |-> ParseID(fields[1]),
         endnode   |-> fields[7],
         ancestors |-> [i \in 1..(Len(fields) - 7) |-> ParseID(fields[i + 7])]]

\* The data lines of a sequence of lines, and of a text, as they are read.
ReadLines(lines) ==
    LET data == SelectSeq(lines, LAMBDA line : ~IsComment(line))
    IN  [i \in DOMAIN data |-> ReadLine(data[i])]

ReadText(text) == ReadLines(SplitStr(text, "\n"))

\* The node an ID stands for: ID i is the i-th node of sorted_list, from 0.
NodeOf(ID) == sorted_list[ID + 1]

\* No cluster of the batch holds a grid point twice.
NoRepeatedPoint ==
    \A c \in DOMAIN clusters :
        \A i, j \in DOMAIN clusters[c].grid_points :
            clusters[c].grid_points[i] = clusters[c].grid_points[j] => i = j

\* The nodes the sort has taken out of nodes_unvisited, one entry for each
\* taking: the nodes of the active calls, those of their results, and
\* sorted_nodes.
RECURSIVE Taken(_)
Taken(i) ==
    IF i > Len(stack) THEN sorted_nodes
    ELSE <<stack[i].node>> \o stack[i].result \o Taken(i + 1)

\* Every node is either still unvisited or was taken exactly once.
TakenOnce ==
    /\ \A i, j \in DOMAIN Taken(1) : Taken(1)[i] = Taken(1)[j] => i = j
    /\ \A i \in DOMAIN Taken(1) : Taken(1)[i] \notin nodes_unvisited
    /\ nodes_unvisited \cup {Taken(1)[i] : i \in DOMAIN Taken(1)}
          = DOMAIN graph

\* A bound on the steps the sort has left: every unvisited node n costs at
\* most Cardinality(graph[n]) + 2 steps, every active call one step for each
\* ancestor it has not reached and one for its return, and one step ends the
\* sort.
RECURSIVE UnvisitedCost(_)
UnvisitedCost(S) ==
    IF S = {} THEN 0
    ELSE LET n == CHOOSE x \in S : TRUE
         IN  Cardinality(graph[n]) + 2 + UnvisitedCost(S \ {n})

RECURSIVE StackCost(_)
StackCost(i) ==
    IF i > Len(stack) THEN 0
    ELSE Cardinality(stack[i].todo) + 1 + StackCost(i + 1)

SortMeasure ==
    IF pc = "sort" THEN UnvisitedCost(nodes_unvisited) + StackCost(1) + 1
    ELSE 0

----------------------------------------------------------------------------
\* Properties.

\* C1: in every Graph the constructor returns, every ancestor of a node
\* stands at a strictly earlier position of sorted_list than the node.
C1_TopologicalOrder ==
    Built => \A n \in DOMAIN graph : \A a \in graph[n] :
                /\ Index(a) >= 1
                /\ Index(a) < Index(n)

\* C2: in every Graph the constructor returns, the ancestor set of every
\* node is the union of its predecessors over every adjacent pair of every
\* cluster.
C2_AncestorsAreUnion ==
    Built => \A n \in DOMAIN graph : graph[n] = UnionAncestors(n)

\* C3: in every Graph the constructor returns, head_nodes is exactly the set
\* of the last points of the clusters that have points.
C3_HeadNodesAreLastPoints ==
    Built => head_nodes = LastPoints

\* C4: when the union of the clusters' ancestor edges holds a cycle, the
\* constructor does not return a Graph.
C4_CycleRejected ==
    HasCycle(UnionGraph) => ~Built

\* C5: in every Graph the constructor returns, sorted_list holds every key
\* of graph exactly once and nothing else.
C5_SortedListIsPermutation ==
    Built =>
        /\ Len(sorted_list) = Cardinality(DOMAIN graph)
        /\ {sorted_list[i] : i \in 1..Len(sorted_list)} = DOMAIN graph
        /\ \A i, j \in 1..Len(sorted_list) :
                sorted_list[i] = sorted_list[j] => i = j

\* C5 witness: a Graph of three nodes, one of them with two ancestors.
C5_Witness ==
    /\ Built
    /\ Cardinality(DOMAIN graph) >= 3
    /\ \E n \in DOMAIN graph : Cardinality(graph[n]) >= 2

\* The batch is one cluster of one grid point.
SingleClusterOfOne ==
    /\ Len(clusters) = 1
    /\ Len(clusters[1].grid_points) = 1

\* C6: the constructor, given one cluster of one grid point, returns a Graph
\* of exactly that node, with no ancestors, which is a head node.
C6_SingleClusterOfOne ==
    (SingleClusterOfOne /\ pc \in {"done", "raised"}) =>
        /\ Built
        /\ DOMAIN graph = {clusters[1].grid_points[1]}
        /\ graph[clusters[1].grid_points[1]] = {}
        /\ clusters[1].grid_points[1] \in head_nodes

\* C7: in every Graph the constructor returns, point_info has an entry for
\* exactly the grid points of the batch, and the entry of a point is the mean
\* and the population standard deviation of the values at all its
\* occurrences, those repeated inside one cluster counted each.
C7_Statistics ==
    Built =>
        /\ DOMAIN point_info = BatchPoints
        /\ \A p \in BatchPoints :
                /\ point_info[p].value_avg = MeanAt(p)
                /\ point_info[p].value_stdev = VarianceAt(p)

\* C7 witness: a point that occurs twice in one cluster, with two values.
C7_Witness ==
    /\ Built
    /\ \E x, y \in Positions :
          /\ x[1] = y[1]
          /\ x[2] # y[2]
          /\ PointAt(x) = PointAt(y)
          /\ ValueAt(x) # ValueAt(y)
          /\ point_info[PointAt(x)].value_stdev # <<0, 1>>

C9_MismatchRejected ==
    (\E c \in 1..Len(clusters) :
        Len(clusters[c].grid_points) # Len(clusters[c].values)) => ~Built

\* C10: the clusters without grid points have no effect: the constructor
\* ends as it does on the batch without them, by the same exception or with
\* the same graph, statistics and head nodes; a batch of nothing but such
\* clusters gives a Graph without nodes, head nodes or sorted nodes.
C10_EmptyClustersSkipped ==
    pc \in {"done", "raised"} =>
        LET o == LoopOver(NonEmptyClusters) IN
        /\ exc = o.exc
        /\ Built =>
            /\ graph = o.graph
            /\ point_info = PointInfo(o.values)
            /\ head_nodes = o.head_nodes
            /\ NonEmptyClusters = <<>> =>
                /\ DOMAIN graph = {}
                /\ head_nodes = {}
                /\ sorted_list = <<>>

\* C10 witness: a Graph built from a batch that holds a cluster without
\* grid points before one with grid points.
C10_Witness ==
    /\ Built
    /\ \E i, j \in 1..Len(clusters) :
          /\ i < j
          /\ clusters[i].grid_points = <<>>
          /\ clusters[j].grid_points # <<>>

\* C11: for a batch with at least one grid point on a grid that has their
\* planes, shift_clusters_to_zero_index returns as many clusters in the same
\* order, each with its values, its metadata and the scale and frequency
\* indices of its points unchanged, and every time index t at scale s replaced
\* by t - shift * 2^(scaleIndexMax - s), shift being the floor of timeMin /
\* timescales[scaleIndexMax] (so that a shift of 0 returns the points as they
\* were).
C11_AlignmentShifts ==
    (pc # "align" /\ Alignable(raw)) =>
        /\ Aligned
        /\ Len(clusters) = Len(raw)
        /\ \A c \in DOMAIN raw :
              /\ clusters[c].values = raw[c].values
              /\ clusters[c].metadata = raw[c].metadata
              /\ Len(clusters[c].grid_points) = Len(raw[c].grid_points)
              /\ \A j \in DOMAIN raw[c].grid_points :
                    LET p == raw[c].grid_points[j]
                    IN  clusters[c].grid_points[j] =
                            <<p[1],
                              p[2] - ExactShift(raw)
                                       * Pow2(ScaleIndexMax(raw) - p[1]),
                              p[3]>>

\* C12: after the alignment of a batch with at least one grid point, the
\* smallest physical time t of the returned points satisfies
\* 0 <= t < timescales[scaleIndexMax], and no returned point has a negative
\* time index.
C12_AlignedToZero ==
    (Aligned /\ Alignable(raw)) =>
        /\ 0 <= ExactTimeMin(clusters)
        /\ ExactTimeMin(clusters) < Pow2(ScaleIndexMax(clusters))
        /\ \A i \in DOMAIN Nodes(clusters, 1) : Nodes(clusters, 1)[i][2] >= 0

\* C13: for a Graph with nodes, span(grid) returns floor(timeMax /
\* timescales[scaleIndexMax]) + 1 (it raises ValueError only for a Graph
\* without nodes); for the Graph whose only node has scale index 0 and time
\* index 5, on the grid of timescales [1.0], it returns 6.
C13_Span ==
    /\ SpanReturned =>
          returned.value = (ExactTimeMax \div Pow2(SortedScaleIndexMax)) + 1
    /\ exc = "ValueError" => sorted_list = <<>>
    /\ (/\ SpanReturned
        /\ sorted_list = <<<<0, 5, 1>>>>
        /\ grid = CoherentWaveBurstGrid(1, 0, 0)) => returned.value = 6

\* C14: span on a Graph without nodes raises an error (ValueError) to the
\* caller and returns no number.
C14_SpanOfEmptyGraphRaises ==
    [][(pc = "done" /\ sorted_list = <<>>) =>
          (pc' = "raised" /\ exc' = "ValueError" /\ returned' = NoResult)]_vars

\* span was called on the Graph built from empty clusters only.
C14_Witness ==
    /\ pc = "raised"
    /\ exc = "ValueError"
    /\ graph = EmptyDict
    /\ Len(clusters) = 2

\* C15: the serialization of every Graph the constructor returns completes
\* (no KeyError), the node at position i of sorted_list gets the ID i, and
\* every ancestor ID on a data line is the ID of an ancestor of the line's
\* node, assigned before the line is written and smaller than the node's ID.
C15_SerializationAssignsIDs ==
    /\ exc # "KeyError"
    /\ pc \in {"str", "done"} =>
          /\ DOMAIN node_IDs = {sorted_list[i] : i \in 1..node_ID}
          /\ \A n \in DOMAIN node_IDs : NodeOf(node_IDs[n]) = n
          /\ LET lines == ReadLines(output_list)
             IN  /\ Len(lines) = node_ID
                 /\ \A i \in DOMAIN lines :
                       /\ lines[i].ID = i - 1
                       /\ \A j \in DOMAIN lines[i].ancestors :
                             /\ lines[i].ancestors[j] >= 0
                             /\ lines[i].ancestors[j] < lines[i].ID
                             /\ NodeOf(lines[i].ancestors[j])
                                   \in graph[NodeOf(lines[i].ID)]

C17_RoundTrip ==
    StrReturned =>
        LET lines == ReadText(returned.value)
            IDs   == 0..(Len(sorted_list) - 1)
        IN  /\ Len(lines) = Cardinality(DOMAIN graph)
            /\ Len(lines) = Len(sorted_list)
            /\ \A i \in DOMAIN lines : lines[i].ID = i - 1
            /\ \A i \in DOMAIN lines :
                  LET read == lines[i].ancestors
                  IN  /\ \A j \in DOMAIN read : read[j] \in IDs
                      /\ {NodeOf(read[j]) : j \in DOMAIN read}
                            = graph[NodeOf(lines[i].ID)]
                      /\ Len(read) = Cardinality(graph[NodeOf(lines[i].ID)])

\* A text has been returned for a Graph with a node of two ancestors.
C17_Witness ==
    /\ StrReturned
    /\ \E n \in DOMAIN graph : Cardinality(graph[n]) = 2

C19_SortTerminates ==
    /\ [](pc = "sort" => (TakenOnce /\ ENABLED Next))
    /\ [][pc = "sort" =>
            /\ SortMeasure' < SortMeasure
            /\ pc' = "done" => nodes_unvisited = {}]_vars
    /\ <>(pc \in {"done", "raised"})

\* The sort has ended on a graph of several nodes with a cycle.
C19_Witness ==
    /\ Built
    /\ HasCycle(graph)
    /\ Len(sorted_list) >= 3

\* C20: in every Graph the constructor returns, every grid point in the
\* ancestor set of a node is a key of graph, and stands in sorted_list.
C20_AncestorsAreNodes ==
    Built => \A n \in DOMAIN graph : \A a \in graph[n] :
                /\ a \in DOMAIN graph
                /\ \E i \in DOMAIN sorted_list : sorted_list[i] = a

\* A Graph of three nodes, one of them with two ancestors, has been built.
C20_Witness ==
    /\ Built
    /\ Cardinality(DOMAIN graph) = 3
    /\ \E n \in DOMAIN graph : Cardinality(graph[n]) = 2

\* C21: once the constructor has returned, no step of a call of span or of
\* __str__, in any sequence of such calls and whether the call returns or
\* raises, changes graph (its keys and every ancestor set), point_info,
\* head_nodes or sorted_list.
C21_ReadOnlyAfterConstruction ==
    [][(pc = "done" \/ pc = "str") =>
          UNCHANGED <<graph, point_info, head_nodes, sorted_list>>]_vars

\* span has returned after __str__ had written a Graph with an ancestor.
C21_Witness ==
    /\ pc = "done"
    /\ returned # NoResult
    /\ returned.call = "span"
    /\ Len(output_list) > 2
    /\ \E n \in DOMAIN graph : graph[n] # {}

\* C22: the graph and the head_nodes of a returned Graph are those of the
\* Graph built from any other order of the same clusters.
C22_MergeOrderIndependent ==
    Built => \A other \in Permuted :
                LET o == LoopOver(other) IN
                o.exc = "none" =>
                    /\ o.graph = graph
                    /\ o.head_nodes = head_nodes

\* C23: in every Graph the constructor returns from clusters whose
\* grid_points and values are of equal lengths, point_info and graph have
\* the same keys; and while __str__ writes the Graph, every node of
\* sorted_list, the one whose statistics are looked up next among them, is a
\* key of point_info.
C23_StatisticsForEveryNode ==
    (pc = "done" \/ pc = "str") =>
        /\ DOMAIN point_info = DOMAIN graph
        /\ \A i \in DOMAIN sorted_list : sorted_list[i] \in DOMAIN point_info

\* __str__ has looked up the statistics of the three nodes of a Graph and is
\* about to return.
C23_Witness ==
    /\ pc = "str"
    /\ node_ID = Len(sorted_list)
    /\ node_ID = 3
    /\ Len(output_list) = 7

\* C24: when shift_clusters_to_zero_index has returned, the returned batch
\* has the positions of the original one and two positions hold the same
\* point after the alignment iff they held the same point before (the map s
\* from a point to its shifted point is a function and injective); the
\* constructor raises on the aligned batch iff it raises on the original
\* one; and the Graph it returns is the image under s of the Graph of the
\* original batch: the keys of graph are the images of the keys, q is an
\* ancestor of p iff s(q) is an ancestor of s(p), p is a head node iff s(p)
\* is, and p and s(p) have the same list of values.
C24_AlignmentCommutes ==
    Aligned =>
        /\ Len(clusters) = Len(raw)
        /\ \A c \in DOMAIN raw :
              Len(clusters[c].grid_points) = Len(raw[c].grid_points)
        /\ \A x, y \in Positions :
              (RawAt(x) = RawAt(y)) <=> (PointAt(x) = PointAt(y))
        /\ (pc = "done" \/ pc = "raised") =>
              LET o == LoopOver(raw) IN
              /\ o.exc = exc
              /\ Built =>
                    /\ DOMAIN o.graph = {RawAt(x) : x \in Positions}
                    /\ DOMAIN graph = {PointAt(x) : x \in Positions}
                    /\ \A x, y \in Positions :
                          (RawAt(x) \in o.graph[RawAt(y)])
                              <=> (PointAt(x) \in graph[PointAt(y)])
                    /\ \A x \in Positions :
                          /\ (RawAt(x) \in o.head_nodes)
                                <=> (PointAt(x) \in head_nodes)
                          /\ o.values[RawAt(x)] = values[PointAt(x)]

\* A Graph of three nodes, one with an ancestor, has been built from a batch
\* of two clusters that the alignment has moved.
C24_Witness ==
    /\ Built
    /\ Aligned
    /\ clusters # raw
    /\ Len(clusters) = 2
    /\ Cardinality(DOMAIN graph) = 3
    /\ \E n \in DOMAIN graph : graph[n] # {}

====
